---- MODULE Spec2Model ----
(***************************************************************************)
(* Inventory dashboard (app.py, helpers.py): the load path that fills the  *)
(* session state, the metrics and ABC computations, the data-view filter   *)
(* and the report export.  A table is a set of column names and a sequence *)
(* of rows; a row carries its index label and one cell per column.         *)
(***************************************************************************)
EXTENDS Integers, Sequences, FiniteSets, TLC

VARIABLES
    uploaded_file,    \* the file uploader's value in the last script run, or None
    use_sample_data,  \* the sample-data checkbox
    run,              \* which branch of the load section the last script run took
    st_error,         \* what load_data reported through st.error in the last run
    data,             \* st.session_state.data
    metrics,          \* st.session_state.metrics
    abc_analysis,     \* st.session_state.abc_analysis
    location_filter,  \* data view: selected locations
    category_filter,  \* data view: selected categories
    stock_status,     \* data view: selected stock bands
    search_term,      \* data view: search text
    filtered_df,      \* data view: the rows shown
    report_options,   \* report tab: selected sections
    temp_report,      \* the file temp_report.xlsx: None, or the sheets written
    excel_data        \* the bytes offered for download, or None

vars == <<uploaded_file, use_sample_data, run, st_error, data, metrics, abc_analysis,
          location_filter, category_filter, stock_status, search_term,
          filtered_df, report_options, temp_report, excel_data>>

session == <<data, metrics, abc_analysis>>
view == <<location_filter, category_filter, stock_status, search_term, filtered_df>>
report == <<report_options, temp_report, excel_data>>

None == [kind |-> "none"]

(***************************************************************************)
(* Cells.  One shape for every cell so that any two cells compare: a       *)
(* number val/den (den > 0), a missing value, an infinity of sign val, or  *)
(* a string, kept as a sequence of characters.                             *)
(***************************************************************************)
Num(v) == [kind |-> "num", val |-> v, den |-> 1, s |-> <<>>]
NaN == [kind |-> "nan", val |-> 0, den |-> 1, s |-> <<>>]
Inf(sign) == [kind |-> "inf", val |-> sign, den |-> 1, s |-> <<>>]
Str(s) == [kind |-> "str", val |-> 0, den |-> 1, s |-> s]

isna(c) == c.kind = "nan"

Abs(n) == IF n < 0 THEN 0 - n ELSE n

RECURSIVE GCD(_, _)
GCD(a, b) == IF b = 0 THEN a ELSE GCD(b, a % b)

\* the quotient n/d (d # 0) as a cell in lowest terms
Frac(n, d) ==
    LET g == GCD(Abs(n), Abs(d))
        sg == IF d < 0 THEN 0 - 1 ELSE 1
    IN [kind |-> "num", val |-> (sg * n) \div g, den |-> Abs(d) \div g, s |-> <<>>]

\* numpy comparisons: anything compared with a missing value is False
Lt(a, b) ==
    CASE isna(a) \/ isna(b) -> FALSE
      [] a.kind = "inf" /\ b.kind = "inf" -> a.val < b.val
      [] a.kind = "inf" -> a.val < 0
      [] b.kind = "inf" -> b.val > 0
      [] OTHER -> a.val * b.den < b.val * a.den
Gt(a, b) == Lt(b, a)
Le(a, b) == ~isna(a) /\ ~isna(b) /\ ~Lt(b, a)
Ge(a, b) == Le(b, a)

\* numpy arithmetic on the integer-valued cells of a table
Mul(a, b) == IF isna(a) \/ isna(b) THEN NaN ELSE Num(a.val * b.val)
\* float division: x/0 is inf, -inf or nan, never an exception
Div(a, b) ==
    CASE isna(a) \/ isna(b) -> NaN
      [] b.val = 0 /\ a.val > 0 -> Inf(1)
      [] b.val = 0 /\ a.val < 0 -> Inf(0 - 1)
      [] b.val = 0 -> NaN
      [] OTHER -> Frac(a.val * b.den, b.val * a.den)

(***************************************************************************)
(* Strings                                                                 *)
(***************************************************************************)
DigitVal == ("0" :> 0) @@ ("1" :> 1) @@ ("2" :> 2) @@ ("3" :> 3) @@ ("4" :> 4) @@
            ("5" :> 5) @@ ("6" :> 6) @@ ("7" :> 7) @@ ("8" :> 8) @@ ("9" :> 9)
DigitChar == <<"0", "1", "2", "3", "4", "5", "6", "7", "8", "9">>

IsDigits(s) == Len(s) > 0 /\ \A i \in 1..Len(s) : s[i] \in DOMAIN DigitVal

RECURSIVE ParseNat(_)
ParseNat(s) ==
    IF Len(s) = 0 THEN 0
    ELSE 10 * ParseNat(SubSeq(s, 1, Len(s) - 1)) + DigitVal[s[Len(s)]]

RECURSIVE NatToStr(_)
NatToStr(n) ==
    IF n < 10 THEN <<DigitChar[n + 1]>>
    ELSE NatToStr(n \div 10) \o <<DigitChar[(n % 10) + 1]>>

IntToStr(n) == IF n < 0 THEN <<"-">> \o NatToStr(0 - n) ELSE NatToStr(n)

\* pd.to_numeric(..., errors='coerce') on one cell
to_numeric(c) ==
    CASE c.kind = "str" -> IF IsDigits(c.s) THEN Num(ParseNat(c.s)) ELSE NaN
      [] OTHER -> c

\* Series.astype(str) on one cell: a missing value becomes the text "nan"
astype_str(c) ==
    CASE c.kind = "str" -> c
      [] c.kind = "nan" -> Str(<<"n", "a", "n">>)
      [] c.kind = "inf" -> Str(IF c.val < 0 THEN <<"-", "i", "n", "f">> ELSE <<"i", "n", "f">>)
      [] OTHER -> Str(IntToStr(c.val))

(***************************************************************************)
(* Tables                                                                  *)
(***************************************************************************)
Range(f) == {f[i] : i \in DOMAIN f}

SeqsUpTo(S, n) == UNION {[1..k -> S] : k \in 0..n}

\* read_csv / read_excel: the rows get the index labels 0, 1, 2, ...
DataFrame(cols, cellrows) ==
    [kind |-> "table", columns |-> cols,
     rows |-> [i \in 1..Len(cellrows) |->
                  [idx |-> i - 1, cells |-> [c \in cols |-> cellrows[i][c]]]]]

\* df[col] = pd.to_numeric(df[col], errors='coerce')
coerce_numeric(df, col) ==
    [df EXCEPT !.rows = [i \in 1..Len(df.rows) |->
        [df.rows[i] EXCEPT !.cells = [@ EXCEPT ![col] = to_numeric(@)]]]]

\* df[col] = df[col].astype(str)
coerce_str(df, col) ==
    [df EXCEPT !.rows = [i \in 1..Len(df.rows) |->
        [df.rows[i] EXCEPT !.cells = [@ EXCEPT ![col] = astype_str(@)]]]]

\* df[mask]: the rows of df that are in keep, in the order of df
Select(df, keep) == [df EXCEPT !.rows = SelectSeq(df.rows, LAMBDA r : r \in keep)]

RECURSIVE SumInts(_)
SumInts(s) == IF Len(s) = 0 THEN 0 ELSE Head(s) + SumInts(Tail(s))

\* Series.sum(): missing values are skipped
SeriesSum(cells) ==
    SumInts([i \in 1..Len(SelectSeq(cells, LAMBDA c : ~isna(c))) |->
                SelectSeq(cells, LAMBDA c : ~isna(c))[i].val])

(***************************************************************************)
(* helpers.load_data                                                       *)
(***************************************************************************)
required_columns == <<"item_id", "item_name", "quantity", "location", "price", "min_stock">>

NoError == [kind |-> "none", cols |-> <<>>]

\* only the first missing column reported
load_data_first_missing(file) ==
    LET missing_columns ==
            SelectSeq(required_columns, LAMBDA col : col \notin file.table.columns)
        typed ==
            coerce_numeric(coerce_numeric(coerce_numeric(coerce_str(file.table,
                "item_id"), "quantity"), "price"), "min_stock")
    IN CASE ~(file.ext \in {"csv", "xls", "xlsx"}) ->
              [df |-> None, error |-> [kind |-> "unsupported", cols |-> <<>>]]
         [] ~file.readable ->
              [df |-> None, error |-> [kind |-> "exception", cols |-> <<>>]]
         [] missing_columns # <<>> ->
              [df |-> None, error |-> [kind |-> "missing", cols |-> <<Head(missing_columns)>>]]
         [] OTHER -> [df |-> typed, error |-> NoError]

load_data(file) ==
    LET missing_columns ==
            SelectSeq(required_columns, LAMBDA col : col \notin file.table.columns)
        typed ==
            coerce_numeric(coerce_numeric(coerce_numeric(coerce_str(file.table,
                "item_id"), "quantity"), "price"), "min_stock")
    IN CASE ~(file.ext \in {"csv", "xls", "xlsx"}) ->
              [df |-> None, error |-> [kind |-> "unsupported", cols |-> <<>>]]
         [] ~file.readable ->
              [df |-> None, error |-> [kind |-> "exception", cols |-> <<>>]]
         [] missing_columns # <<>> ->
              [df |-> None, error |-> [kind |-> "missing", cols |-> missing_columns]]
         [] OTHER -> [df |-> typed, error |-> NoError]

(***************************************************************************)
(* helpers.calculate_inventory_metrics                                     *)
(***************************************************************************)
is_low(r) == Lt(r.cells["quantity"], r.cells["min_stock"])
is_excess(r) == Gt(r.cells["quantity"], Mul(r.cells["min_stock"], Num(2)))
\* the upper bound taken as exclusive
is_healthy_exclusive(r) ==
    /\ Ge(r.cells["quantity"], r.cells["min_stock"])
    /\ Lt(r.cells["quantity"], Mul(r.cells["min_stock"], Num(2)))

is_healthy(r) ==
    /\ Ge(r.cells["quantity"], r.cells["min_stock"])
    /\ Le(r.cells["quantity"], Mul(r.cells["min_stock"], Num(2)))

Raised == [kind |-> "raised"]

calculate_inventory_metrics(df) ==
    IF ~({"quantity", "price", "min_stock"} \subseteq df.columns)
    THEN Raised    \* KeyError on the first absent column
    ELSE [kind |-> "metrics",
          total_items |-> Len(df.rows),
          total_value |-> SeriesSum([i \in 1..Len(df.rows) |->
              Mul(df.rows[i].cells["quantity"], df.rows[i].cells["price"])]),
          low_stock_count |-> Len(Select(df, {r \in Range(df.rows) : is_low(r)}).rows),
          low_stock_items |-> Select(df, {r \in Range(df.rows) : is_low(r)}),
          excess_stock_count |-> Len(Select(df, {r \in Range(df.rows) : is_excess(r)}).rows),
          excess_stock_items |-> Select(df, {r \in Range(df.rows) : is_excess(r)}),
          healthy_stock_count |-> Len(Select(df, {r \in Range(df.rows) : is_healthy(r)}).rows)]

(***************************************************************************)
(* helpers.generate_abc_analysis                                           *)
(***************************************************************************)
ClassAMax == 80
ClassBMax == 95

Column(df, col) == [i \in 1..Len(df.rows) |-> df.rows[i].cells[col]]

\* df[col] = series: the column is added, or replaced when it exists
SetColumn(df, col, series) ==
    [kind |-> "table", columns |-> df.columns \cup {col},
     rows |-> [i \in 1..Len(df.rows) |->
                  [df.rows[i] EXCEPT !.cells = (col :> series[i]) @@ @]]]

Perms(n) == {p \in [1..n -> 1..n] : \A i, j \in 1..n : i # j => p[i] # p[j]}

\* DataFrame.sort_values(by=col, ascending=False), default kind='quicksort':
\* the non-missing values descending, equal values in an order the sort does
\* not promise, then the missing values in their original order.
sort_orders(series) ==
    {p \in Perms(Len(series)) :
        \A i, j \in 1..Len(series) : i < j =>
            IF isna(series[p[i]])
            THEN isna(series[p[j]]) /\ p[i] < p[j]
            ELSE isna(series[p[j]]) \/ Ge(series[p[i]], series[p[j]])}

sort_values_desc(df, col) ==
    {[df EXCEPT !.rows = [i \in 1..Len(df.rows) |-> df.rows[p[i]]]] :
        p \in sort_orders(Column(df, col))}

\* the running sum left out: each value stands for itself
cumsum_left_out(series) == series

\* Series.cumsum(): missing values are skipped and stay missing
cumsum(series) ==
    [i \in 1..Len(series) |->
        IF isna(series[i]) THEN NaN
        ELSE Num(SeriesSum(SubSeq(series, 1, i)))]

\* the value column added to the caller's table itself, df.copy() left out
with_total_value_in_place(df) ==
    [input |-> SetColumn(df, "total_value",
                  [i \in 1..Len(df.rows) |->
                      Mul(df.rows[i].cells["quantity"], df.rows[i].cells["price"])]),
     df_abc |-> SetColumn(df, "total_value",
                  [i \in 1..Len(df.rows) |->
                      Mul(df.rows[i].cells["quantity"], df.rows[i].cells["price"])])]

\* lines 74-75: the value column is added to a copy; the caller's table is not touched
with_total_value(df) ==
    [input |-> df,
     df_abc |-> SetColumn(df, "total_value",
                  [i \in 1..Len(df.rows) |->
                      Mul(df.rows[i].cells["quantity"], df.rows[i].cells["price"])])]

\* lines 81-82
with_cumulative(df_abc) ==
    LET cv == cumsum(Column(df_abc, "total_value"))
        total == Num(SeriesSum(Column(df_abc, "total_value")))
    IN SetColumn(SetColumn(df_abc, "cumulative_value", cv),
                 "cumulative_percentage",
                 [i \in 1..Len(cv) |-> Div(Mul(Num(100), cv[i]), total)])

\* the class bounds taken as exclusive
abc_class_exclusive(p) ==
    IF Lt(p, Num(ClassAMax)) THEN Str(<<"A">>)
    ELSE IF Lt(p, Num(ClassBMax)) THEN Str(<<"B">>)
    ELSE Str(<<"C">>)

\* the comparisons written as "not above": a missing percentage passes them
abc_class_not_above(p) ==
    IF ~Gt(p, Num(ClassAMax)) THEN Str(<<"A">>)
    ELSE IF ~Gt(p, Num(ClassBMax)) THEN Str(<<"B">>)
    ELSE Str(<<"C">>)

\* lines 85-86: np.where(p <= 80, 'A', np.where(p <= 95, 'B', 'C'))
abc_class(p) ==
    IF Le(p, Num(ClassAMax)) THEN Str(<<"A">>)
    ELSE IF Le(p, Num(ClassBMax)) THEN Str(<<"B">>)
    ELSE Str(<<"C">>)

with_abc_class(df_abc) ==
    SetColumn(df_abc, "abc_class",
        [i \in 1..Len(df_abc.rows) |->
            abc_class(df_abc.rows[i].cells["cumulative_percentage"])])

\* every result the call can give: the caller's table after the call and the
\* table returned, or an exception
generate_abc_analysis(df) ==
    IF ~({"quantity", "price"} \subseteq df.columns)
    THEN {[kind |-> "raised", input |-> df, df_abc |-> None]}
    ELSE {[kind |-> "ok",
           input |-> with_total_value(df).input,
           df_abc |-> with_abc_class(with_cumulative(sorted))] :
             sorted \in sort_values_desc(with_total_value(df).df_abc, "total_value")}

(***************************************************************************)
(* app.py, data view tab: the filter                                       *)
(***************************************************************************)
LowerOf == ("K" :> "k") @@ ("P" :> "p") @@ ("A" :> "a") @@ ("N" :> "n")
lower(c) == IF c \in DOMAIN LowerOf THEN LowerOf[c] ELSE c

\* re.search(term, s, re.IGNORECASE) for a term of literals and the wildcard "."
contains(s, term) ==
    \E off \in 0..(Len(s) - Len(term)) :
        \A k \in 1..Len(term) :
            term[k] = "." \/ lower(term[k]) = lower(s[off + k])

\* Series.str.contains(term, case=False) on one cell: missing stays missing
str_contains(c, term) ==
    IF c.kind # "str" THEN "nan" ELSE IF contains(c.s, term) THEN "true" ELSE "false"

\* Series.isin(values)
isin(c, values) == c.kind = "str" /\ c.s \in values

\* the .str accessor needs an object column: one that holds text, or no rows
is_object(df, col) ==
    Len(df.rows) = 0 \/ \E i \in 1..Len(df.rows) : df.rows[i].cells[col].kind = "str"

\* lines 241-258: one table per selected band, concatenated low, healthy, excess
status_concat(df, status) ==
    [df EXCEPT !.rows =
        (IF "low" \in status THEN Select(df, {r \in Range(df.rows) : is_low(r)}).rows ELSE <<>>) \o
        (IF "healthy" \in status THEN Select(df, {r \in Range(df.rows) : is_healthy(r)}).rows ELSE <<>>) \o
        (IF "excess" \in status THEN Select(df, {r \in Range(df.rows) : is_excess(r)}).rows ELSE <<>>)]

\* the guard "if stock_status:" left out: no selected band keeps no row
status_step_unguarded(df, status) == status_concat(df, status)

status_step(df, status) == IF status # {} THEN status_concat(df, status) ELSE df

\* lines 260-264: id (as text) or name contains the term; a missing result of
\* the name match counts as False in the "|"
search_step(df, term) ==
    Select(df, {r \in Range(df.rows) :
        \/ str_contains(astype_str(r.cells["item_id"]), term) = "true"
        \/ str_contains(r.cells["item_name"], term) = "true"})

\* lines 233-264.  The result is a table, or Raised when a line throws:
\* location_filter is unbound when the table has no location column, and the
\* search needs both columns and a text-typed name column.
apply_filter(df, locations, categories, status, term) ==
    LET by_location ==
            IF locations # {}
            THEN Select(df, {r \in Range(df.rows) : isin(r.cells["location"], locations)})
            ELSE df
        by_category ==
            IF "category" \in df.columns /\ categories # {}
            THEN Select(by_location,
                        {r \in Range(by_location.rows) : isin(r.cells["category"], categories)})
            ELSE by_location
        by_status == status_step(by_category, status)
    IN CASE "location" \notin df.columns -> Raised
         [] term = <<>> -> by_status
         [] ~({"item_id", "item_name"} \subseteq df.columns) -> Raised
         [] ~is_object(df, "item_name") -> Raised
         [] OTHER -> search_step(by_status, term)

\* minimal_app.py lines 115-127: both columns as text, na=False, and any
\* exception caught with the table left unfiltered
minimal_search(df, term) ==
    CASE term = <<>> -> df
      [] {"item_id", "item_name"} \subseteq df.columns ->
            Select(df, {r \in Range(df.rows) :
                \/ str_contains(astype_str(r.cells["item_id"]), term) = "true"
                \/ str_contains(astype_str(r.cells["item_name"]), term) = "true"})
      [] "item_id" \in df.columns ->
            Select(df, {r \in Range(df.rows) :
                str_contains(astype_str(r.cells["item_id"]), term) = "true"})
      [] "item_name" \in df.columns ->
            Select(df, {r \in Range(df.rows) :
                str_contains(astype_str(r.cells["item_name"]), term) = "true"})
      [] OTHER -> df

\* st.multiselect options: df[col].unique()
unique(df, col) ==
    IF col \in df.columns
    THEN {df.rows[i].cells[col].s : i \in {j \in 1..Len(df.rows) : df.rows[j].cells[col].kind = "str"}}
    ELSE {}

(***************************************************************************)
(* app.py, report tab                                                      *)
(***************************************************************************)
ReportSections == {"basic", "low", "excess", "abc"}
DefaultReportOptions == {"basic", "low"}

\* every selected section appended, whatever the counts
report_dfs_as_selected(options, m, abc) ==
    (IF "basic" \in options THEN <<"basic">> ELSE <<>>) \o
    (IF "low" \in options THEN <<"low">> ELSE <<>>) \o
    (IF "excess" \in options THEN <<"excess">> ELSE <<>>) \o
    (IF "abc" \in options THEN <<"abc">> ELSE <<>>)

\* lines 284-296
report_dfs(options, m, abc) ==
    (IF "basic" \in options THEN <<"basic">> ELSE <<>>) \o
    (IF "low" \in options /\ m.low_stock_count > 0 THEN <<"low">> ELSE <<>>) \o
    (IF "excess" \in options /\ m.excess_stock_count > 0 THEN <<"excess">> ELSE <<>>) \o
    (IF "abc" \in options /\ abc.kind # "none" THEN <<"abc">> ELSE <<>>)

\* what the input/output of one report attempt can do
IoOutcomes == {"ok", "open_fails", "write_fails", "read_fails", "remove_fails"}

\* lines 299-325: the file temp_report.xlsx and the download after one click.
\* ExcelWriter closes (and so writes) the workbook when its block is left,
\* also by an exception; os.remove is reached only after a successful read.
generate_report(sheets, io, file_before) ==
    CASE sheets = <<>> -> [temp_report |-> file_before, excel_data |-> None]
      [] io = "open_fails" -> [temp_report |-> file_before, excel_data |-> None]
      [] io = "write_fails" ->
            [temp_report |-> [kind |-> "file", sheets |-> <<>>], excel_data |-> None]
      [] io = "read_fails" ->
            [temp_report |-> [kind |-> "file", sheets |-> sheets], excel_data |-> None]
      [] io = "remove_fails" ->
            [temp_report |-> [kind |-> "file", sheets |-> sheets],
             excel_data |-> [kind |-> "bytes", sheets |-> sheets]]
      [] OTHER -> [temp_report |-> None, excel_data |-> [kind |-> "bytes", sheets |-> sheets]]

(***************************************************************************)
(* visualization.py                                                        *)
(***************************************************************************)
\* lines 150-158: the three counts of the gauges; healthy is what is left of
\* the total, and the percentages divide by the number of rows
plot_stock_status_gauge(df) ==
    LET total_items == Len(df.rows)
        low_stock == Len(Select(df, {r \in Range(df.rows) : is_low(r)}).rows)
        excess_stock == Len(Select(df, {r \in Range(df.rows) : is_excess(r)}).rows)
    IN IF ~({"quantity", "min_stock"} \subseteq df.columns) \/ total_items = 0
       THEN Raised    \* KeyError, or ZeroDivisionError for a table without rows
       ELSE [kind |-> "gauge",
             low_stock |-> low_stock,
             excess_stock |-> excess_stock,
             healthy_stock |-> total_items - low_stock - excess_stock]

\* the columns the charts of the first two tabs read
ChartColumns == {"item_name", "quantity", "price", "min_stock", "location"}

(***************************************************************************)
(* app.py: one run of the script                                           *)
(***************************************************************************)
is_none(x) == x.kind = "none"

\* lines 113-115 and 135-137: three assignments in a row; an exception in the
\* second or third leaves the earlier ones made
assign_session(df, s) ==
    LET m == calculate_inventory_metrics(df) IN
    IF m.kind = "raised"
    THEN {[s |-> [s EXCEPT !.data = df], raised |-> TRUE]}
    ELSE {IF a.kind = "raised"
          THEN [s |-> [s EXCEPT !.data = a.input, !.metrics = m], raised |-> TRUE]
          ELSE [s |-> [data |-> a.input, metrics |-> m, abc_analysis |-> a.df_abc],
                raised |-> FALSE] :
            a \in generate_abc_analysis(df)}

\* lines 108-118
upload_section(file, s) ==
    LET r == load_data(file) IN
    IF is_none(r.df)
    THEN {[s |-> s, run |-> "upload", error |-> r.error]}
    ELSE {[s |-> o.s, run |-> "upload",
           error |-> IF o.raised THEN [kind |-> "exception", cols |-> <<>>] ELSE NoError] :
            o \in assign_session(r.df, s)}

\* lines 123-128: the four paths tried; the first and the third name the same file
sample_data_paths(fs) == <<fs.cwd, fs.script, fs.cwd, fs.sub>>

\* lines 130-145: the first path that exists and loads without an exception wins
RECURSIVE sample_loop(_, _)
sample_loop(paths, s) ==
    IF paths = <<>>
    THEN {[s |-> s, run |-> "sample", error |-> [kind |-> "sample_not_loaded", cols |-> <<>>]]}
    ELSE IF is_none(Head(paths)) \/ ~Head(paths).readable
         THEN sample_loop(Tail(paths), s)
         ELSE UNION {IF o.raised
                     THEN sample_loop(Tail(paths), o.s)
                     ELSE {[s |-> o.s, run |-> "sample", error |-> NoError]} :
                        o \in assign_session(Head(paths).table, s)}

load_section(file, sample, fs, s) ==
    IF ~is_none(file) THEN upload_section(file, s)
    ELSE IF sample THEN sample_loop(sample_data_paths(fs), s)
    ELSE {[s |-> s, run |-> "none", error |-> NoError]}

\* line 148
dashboard_shown(d, m) == ~is_none(d) /\ ~is_none(m)

\* app.py lines 151-203: the dashboard and analysis tabs end the run with an
\* exception when the gauge or a chart throws
tabs_raise(df) ==
    plot_stock_status_gauge(df).kind = "raised" \/ ~(ChartColumns \subseteq df.columns)

\* the run gets to the data view tab
view_reached(d, m) == dashboard_shown(d, m) /\ ~tabs_raise(d)

\* the run draws the widgets that follow the location multiselect
filters_drawn(d, m) == view_reached(d, m) /\ "location" \in d.columns

\* a multiselect drawn in two consecutive runs with the same options
same_options(col) ==
    /\ view_reached(data, metrics)
    /\ view_reached(data', metrics')
    /\ col \in data.columns
    /\ col \in data'.columns
    /\ unique(data', col) = unique(data, col)

\* One run of the script with the widgets asking for `want`.  A widget keeps its
\* value only while it is drawn in consecutive runs with the same options;
\* otherwise it shows its default.  The report tab is reached only when the
\* data view did not throw.
Script(file, sample, fs, want, click, io) ==
    \E o \in load_section(file, sample, fs,
                [data |-> data, metrics |-> metrics, abc_analysis |-> abc_analysis]) :
        /\ uploaded_file' = file
        /\ use_sample_data' = sample
        /\ run' = o.run
        /\ st_error' = o.error
        /\ data' = o.s.data
        /\ metrics' = o.s.metrics
        /\ abc_analysis' = o.s.abc_analysis
        /\ location_filter' = IF same_options("location") THEN want.location_filter ELSE {}
        /\ category_filter' = IF same_options("category") THEN want.category_filter ELSE {}
        /\ stock_status' =
              IF filters_drawn(data, metrics) /\ filters_drawn(data', metrics')
              THEN want.stock_status ELSE {}
        /\ search_term' =
              IF filters_drawn(data, metrics) /\ filters_drawn(data', metrics')
              THEN want.search_term ELSE <<>>
        /\ filtered_df' =
              IF view_reached(data', metrics')
              THEN apply_filter(data', location_filter', category_filter',
                                stock_status', search_term')
              ELSE IF dashboard_shown(data', metrics') THEN Raised ELSE None
        /\ report_options' =
              IF filtered_df'.kind = "table" /\ filtered_df.kind = "table"
              THEN want.report_options ELSE DefaultReportOptions
        /\ \E rep \in {IF filtered_df'.kind = "table" /\ click
                      THEN generate_report(report_dfs(report_options', metrics', abc_analysis'),
                                           io, temp_report)
                      ELSE [temp_report |-> temp_report, excel_data |-> None]} :
              /\ temp_report' = rep.temp_report
              /\ excel_data' = rep.excel_data

widgets ==
    [location_filter |-> location_filter, category_filter |-> category_filter,
     stock_status |-> stock_status, search_term |-> search_term,
     report_options |-> report_options]

StockBands == {"low", "healthy", "excess"}

(***************************************************************************)
(* The user's actions; each one reruns the script.  Files is the set of    *)
(* files the user uploads, Disks the contents the sample paths can have.   *)
(* A multiselect changes by one option per rerun.                          *)
(***************************************************************************)
toggle(selected, opt) ==
    IF opt \in selected THEN selected \ {opt} ELSE selected \cup {opt}

UploadFile(Files) ==
    \E file \in Files, fs \in {[cwd |-> None, script |-> None, sub |-> None]} :
        Script(file, FALSE, fs, widgets, FALSE, "ok")

RemoveFile(Disks) ==
    /\ ~is_none(uploaded_file)
    /\ \E fs \in Disks : Script(None, TRUE, fs, widgets, FALSE, "ok")

ToggleSample(Disks) ==
    /\ is_none(uploaded_file)
    /\ \E fs \in Disks : Script(None, ~use_sample_data, fs, widgets, FALSE, "ok")

Rerun(Disks) ==
    \E fs \in Disks : Script(uploaded_file, use_sample_data, fs, widgets, FALSE, "ok")

SetLocationFilter(Disks) ==
    /\ filtered_df.kind = "table"
    /\ \E fs \in Disks, opt \in unique(data, "location") :
          Script(uploaded_file, use_sample_data, fs,
                 [widgets EXCEPT !.location_filter = toggle(@, opt)], FALSE, "ok")

SetCategoryFilter(Disks) ==
    /\ filtered_df.kind = "table"
    /\ "category" \in data.columns
    /\ \E fs \in Disks, opt \in unique(data, "category") :
          Script(uploaded_file, use_sample_data, fs,
                 [widgets EXCEPT !.category_filter = toggle(@, opt)], FALSE, "ok")

SetStockStatus(Disks) ==
    /\ filters_drawn(data, metrics)
    /\ \E fs \in Disks, opt \in StockBands :
          Script(uploaded_file, use_sample_data, fs,
                 [widgets EXCEPT !.stock_status = toggle(@, opt)], FALSE, "ok")

SetSearchTerm(Disks, Terms) ==
    /\ filters_drawn(data, metrics)
    /\ \E fs \in Disks, term \in Terms :
          Script(uploaded_file, use_sample_data, fs,
                 [widgets EXCEPT !.search_term = term], FALSE, "ok")

SetReportOptions(Disks) ==
    /\ filtered_df.kind = "table"
    /\ \E fs \in Disks, opt \in ReportSections :
          Script(uploaded_file, use_sample_data, fs,
                 [widgets EXCEPT !.report_options = toggle(@, opt)], FALSE, "ok")

ClickGenerate(Disks) ==
    /\ filtered_df.kind = "table"
    /\ \E fs \in Disks, io \in IoOutcomes :
          Script(uploaded_file, use_sample_data, fs, widgets, TRUE, io)

\* the page as first drawn with no sample file on disk: lines 66-72 and 144-145
Init ==
    /\ uploaded_file = None
    /\ use_sample_data = TRUE
    /\ run = "sample"
    /\ st_error = [kind |-> "sample_not_loaded", cols |-> <<>>]
    /\ data = None
    /\ metrics = None
    /\ abc_analysis = None
    /\ location_filter = {}
    /\ category_filter = {}
    /\ stock_status = {}
    /\ search_term = <<>>
    /\ filtered_df = None
    /\ report_options = DefaultReportOptions
    /\ temp_report = None
    /\ excel_data = None

(***************************************************************************)
(* Inputs: the files a user can upload and the sample files on disk        *)
(***************************************************************************)
AllColumns == Range(required_columns) \cup {"category"}

MkRow(id, name, cat, q, p, m, loc) ==
    [item_id |-> id, item_name |-> name, category |-> cat,
     quantity |-> q, price |-> p, min_stock |-> m, location |-> loc]

Tables(cols, Rows, n) == {DataFrame(cols, cr) : cr \in SeqsUpTo(Rows, n)}

File(ext, readable, table) ==
    [kind |-> "file", ext |-> ext, readable |-> readable, table |-> table]

CsvFiles(tables) == {File("csv", TRUE, tb) : tb \in tables}

NoDisk == [cwd |-> None, script |-> None, sub |-> None]

UploadOnce(Files) == is_none(uploaded_file) /\ UploadFile(Files)

(***************************************************************************)
(* SpecMetrics: uploads whose quantity and min_stock cells are text,       *)
(* negative, zero or positive, through load_data into the metrics.         *)
(***************************************************************************)
MaxRowsMetrics == 2

MetricQuantities == {Str(<<"x">>), Num(0 - 3), Num(0), Num(1), Num(2), Num(3)}
MetricMinStocks == {Str(<<"x">>), Num(0 - 2), Num(0), Num(1)}

MetricRows ==
    {MkRow(Str(<<"K", "1">>), Str(<<"a">>), Str(<<"X">>), q, Num(1), m, Str(<<"A">>)) :
        q \in MetricQuantities, m \in MetricMinStocks}

MetricFiles == CsvFiles(Tables(Range(required_columns), MetricRows, MaxRowsMetrics))

NextMetrics == UploadOnce(MetricFiles) \/ Rerun({NoDisk})

SpecMetrics == Init /\ [][NextMetrics]_vars

\* the upload of the last run was accepted by load_data and filled the session
Accepted == run = "upload" /\ st_error = NoError /\ ~is_none(metrics)

BandSum ==
    metrics.low_stock_count + metrics.healthy_stock_count + metrics.excess_stock_count

\* no row has a missing quantity or min_stock, or a negative min_stock
SaneStock(df) ==
    \A i \in 1..Len(df.rows) :
        /\ df.rows[i].cells["quantity"].kind = "num"
        /\ df.rows[i].cells["min_stock"].kind = "num"
        /\ df.rows[i].cells["min_stock"].val >= 0

\* C1 as stated: for every table load_data accepts, the three band counts add
\* up to total_items.
C1_AsStated == Accepted => BandSum = metrics.total_items

\* C1, amended: for every accepted table in which no row has a missing
\* quantity or min_stock and no row has a negative min_stock, the three band
\* counts add up to total_items.
C1_BandsPartition == (Accepted /\ SaneStock(data)) => BandSum = metrics.total_items

\* C1 witness: an accepted table with a low row and a healthy row whose
\* quantity is exactly twice its min_stock
C1_Witness ==
    /\ Accepted
    /\ SaneStock(data)
    /\ metrics.total_items = 2
    /\ metrics.low_stock_count = 1
    /\ metrics.healthy_stock_count = 1
    /\ \E i \in 1..Len(data.rows) :
          /\ data.rows[i].cells["min_stock"] = Num(1)
          /\ data.rows[i].cells["quantity"] = Num(2)

\* C15: for every accepted table the gauge shows its counts, and its healthy
\* count (what is left of the total after low and excess) is the
\* healthy_stock_count of the metrics; the low and excess counts agree too.
C15_GaugeAgreesWithMetrics ==
    Accepted =>
        /\ plot_stock_status_gauge(data).kind = "gauge"
        /\ plot_stock_status_gauge(data).healthy_stock = metrics.healthy_stock_count
        /\ plot_stock_status_gauge(data).low_stock = metrics.low_stock_count
        /\ plot_stock_status_gauge(data).excess_stock = metrics.excess_stock_count

(***************************************************************************)
(* SpecAbc: uploads whose values reach cumulative shares of exactly 80 and *)
(* 95 percent, with text, negative and zero quantities among them.         *)
(***************************************************************************)
MaxRowsAbc == 3

AbcQuantities == {Str(<<"x">>), Num(0 - 1), Num(0), Num(1), Num(3), Num(16)}
AbcPrices == {Num(1), Num(4)}

AbcRows ==
    {MkRow(Str(<<"K", "1">>), Str(<<"a">>), Str(<<"X">>), q, p, Num(1), Str(<<"A">>)) :
        q \in AbcQuantities, p \in AbcPrices}

AbcFiles == CsvFiles(Tables(Range(required_columns), AbcRows, MaxRowsAbc))

NextAbc == UploadOnce(AbcFiles) \/ Rerun({NoDisk})

SpecAbc == Init /\ [][NextAbc]_vars

Percentage(i) == abc_analysis.rows[i].cells["cumulative_percentage"]
Value(i) == abc_analysis.rows[i].cells["total_value"]
Class(i) == abc_analysis.rows[i].cells["abc_class"].s

\* the percentage p is a number (or minus infinity) not above n
AtMost(p, n) == (p.kind = "num" /\ p.val <= n * p.den) \/ (p.kind = "inf" /\ p.val < 0)

\* C2: every row of the ABC table has class A when its cumulative percentage
\* is at most 80, class B when it is above 80 and at most 95, and class C
\* otherwise; exactly 80 gives A and exactly 95 gives B.
C2_ClassByThreshold ==
    Accepted =>
        \A i \in 1..Len(abc_analysis.rows) :
            /\ AtMost(Percentage(i), 80) => Class(i) = <<"A">>
            /\ (~AtMost(Percentage(i), 80) /\ AtMost(Percentage(i), 95)) => Class(i) = <<"B">>
            /\ ~AtMost(Percentage(i), 95) => Class(i) = <<"C">>
            /\ Percentage(i) = Num(80) => Class(i) = <<"A">>
            /\ Percentage(i) = Num(95) => Class(i) = <<"B">>

\* C2 witness: one table with a row at exactly 80 (A), one at exactly 95 (B)
\* and one above (C)
C2_Witness ==
    /\ Accepted
    /\ \E i, j, k \in 1..Len(abc_analysis.rows) :
          /\ Percentage(i) = Num(80) /\ Class(i) = <<"A">>
          /\ Percentage(j) = Num(95) /\ Class(j) = <<"B">>
          /\ Percentage(k) = Num(100) /\ Class(k) = <<"C">>

\* the row of the ABC table cut down to the columns of the input
InputCells(r) == [c \in data.columns |-> r.cells[c]]

\* C3: the ABC table holds exactly the rows of the input, each once, and the
\* table handed to generate_abc_analysis is the one load_data returned, unchanged.
C3_Permutation ==
    Accepted =>
        /\ data = load_data(uploaded_file).df
        /\ Len(abc_analysis.rows) = Len(data.rows)
        /\ \A i \in 1..Len(data.rows) :
              Cardinality({j \in 1..Len(abc_analysis.rows) :
                  /\ abc_analysis.rows[j].idx = data.rows[i].idx
                  /\ InputCells(abc_analysis.rows[j]) = data.rows[i].cells}) = 1

\* C3 witness: three rows, one with a missing value, that the sort reorders
C3_Witness ==
    /\ Accepted
    /\ Len(data.rows) = 3
    /\ \E i \in 1..3 : isna(Value(i))
    /\ \E i \in 1..3 : abc_analysis.rows[i].idx # data.rows[i].idx

NonDecreasingTo100 ==
    /\ \A i \in 1..(Len(abc_analysis.rows) - 1) : Le(Percentage(i), Percentage(i + 1))
    /\ Len(abc_analysis.rows) > 0
    /\ Percentage(Len(abc_analysis.rows)) = Num(100)

\* C4 as stated: for every input whose total value is nonzero, the cumulative
\* percentage never decreases along the output and ends at 100.
C4_AsStated == (Accepted /\ metrics.total_value # 0) => NonDecreasingTo100

\* every row has a value, and none is negative
ValuesNonNegative ==
    \A i \in 1..Len(abc_analysis.rows) : Value(i).kind = "num" /\ Value(i).val >= 0

\* C4, amended: for every input whose total value is nonzero and in which no
\* row has a missing or a negative quantity*price, the cumulative percentage
\* never decreases along the output and ends at 100.
C4_NonDecreasingTo100 ==
    (Accepted /\ metrics.total_value # 0 /\ ValuesNonNegative) => NonDecreasingTo100

\* C4 witness: three rows of positive value with three different percentages
C4_Witness ==
    /\ Accepted
    /\ ValuesNonNegative
    /\ Len(abc_analysis.rows) = 3
    /\ Lt(Percentage(1), Percentage(2))
    /\ Lt(Percentage(2), Percentage(3))
    /\ Percentage(3) = Num(100)

\* the sum of quantity*price over the table load_data returns for the upload
TotalValueSum ==
    SeriesSum([i \in 1..Len(load_data(uploaded_file).df.rows) |->
        Mul(load_data(uploaded_file).df.rows[i].cells["quantity"],
            load_data(uploaded_file).df.rows[i].cells["price"])])

\* the run loaded an uploaded table whose total value is zero
ZeroTotalLoaded ==
    /\ run = "upload"
    /\ load_data(uploaded_file).error = NoError
    /\ TotalValueSum = 0

\* C13: when the sum of quantity*price over the loaded table is zero, the load
\* succeeds, calculate_inventory_metrics gives its metrics, and
\* generate_abc_analysis gives every row the class C.
C13_ZeroTotalAllC ==
    ZeroTotalLoaded =>
        /\ st_error = NoError
        /\ metrics = calculate_inventory_metrics(data)
        /\ metrics.kind = "metrics"
        /\ metrics.total_value = 0
        /\ abc_analysis.kind = "table"
        /\ Len(abc_analysis.rows) = Len(data.rows)
        /\ \A i \in 1..Len(abc_analysis.rows) : Class(i) = <<"C">>

\* C13 witness: three rows whose values cancel to zero, the first with an
\* infinite percentage and the last with a missing one, all in class C
C13_Witness ==
    /\ ZeroTotalLoaded
    /\ Len(abc_analysis.rows) = 3
    /\ Percentage(1).kind = "inf"
    /\ Percentage(3).kind = "nan"
    /\ \A i \in 1..3 : Class(i) = <<"C">>

\* C14: the rows of the ABC table are in descending order of total_value, and
\* rows of equal total_value are in the order they have in the input table
\* (rows without a value are left out of the comparison).
C14_StableDescending ==
    Accepted =>
        \A i, j \in 1..Len(abc_analysis.rows) :
            (i < j /\ ~isna(Value(i)) /\ ~isna(Value(j))) =>
                /\ Ge(Value(i), Value(j))
                /\ Value(i) = Value(j) => abc_analysis.rows[i].idx < abc_analysis.rows[j].idx

(***************************************************************************)
(* SpecView: an upload, then the four filter widgets of the data view.     *)
(* A row's band fixes its id, category and location, so that each of the   *)
(* four filters splits the rows differently.                               *)
(***************************************************************************)
MaxRowsView == 2

ViewBands ==
    {[id |-> <<"K", "1">>, cat |-> <<"X">>, loc |-> <<"A">>, q |-> 0, m |-> 1],          \* low
     [id |-> <<"P", "1">>, cat |-> <<"X">>, loc |-> <<"B">>, q |-> 1, m |-> 1],          \* healthy
     [id |-> <<"P", "2">>, cat |-> <<"Y">>, loc |-> <<"A">>, q |-> 3, m |-> 1],          \* excess
     [id |-> <<"K", "2">>, cat |-> <<"Y">>, loc |-> <<"B">>, q |-> 0 - 3, m |-> 0 - 2]}  \* low and excess

ViewRows ==
    {MkRow(Str(b.id), Str(<<"a">>), Str(b.cat), Num(b.q), Num(1), Num(b.m), Str(b.loc)) :
        b \in ViewBands}

ViewFiles ==
    CsvFiles(Tables(Range(required_columns), ViewRows, MaxRowsView)
             \cup Tables(AllColumns, ViewRows, MaxRowsView))

ViewTerms == {<<>>, <<"k">>}

NextView ==
    \/ UploadOnce(ViewFiles)
    \/ SetLocationFilter({NoDisk})
    \/ SetCategoryFilter({NoDisk})
    \/ SetStockStatus({NoDisk})
    \/ SetSearchTerm({NoDisk}, ViewTerms)

SpecView == Init /\ [][NextView]_vars

\* the data view of the last run drew a table
ViewDrawn == filtered_df.kind = "table"

\* C5 as stated: with no stock band selected, no row passes the filter.
C5_AsStated == (ViewDrawn /\ stock_status = {}) => filtered_df.rows = <<>>

\* the row passes the location, category and search predicates of the view
PassesOthers(r) ==
    /\ location_filter = {} \/ r.cells["location"].s \in location_filter
    /\ \/ "category" \notin data.columns
       \/ category_filter = {}
       \/ r.cells["category"].s \in category_filter
    /\ \/ search_term = <<>>
       \/ contains(r.cells["item_id"].s, search_term)
       \/ contains(r.cells["item_name"].s, search_term)

\* C5, amended: with no stock band selected the stock-band filter imposes no
\* constraint, exactly like an empty location or category selection: the
\* rows shown are the rows that pass the location, category and search filters.
C5_EmptyBandsNoConstraint ==
    (ViewDrawn /\ stock_status = {}) => filtered_df.rows = SelectSeq(data.rows, PassesOthers)

\* C5 witness: no band selected, the other three filters set, and one of two
\* rows shown
C5_Witness ==
    /\ ViewDrawn
    /\ stock_status = {}
    /\ location_filter # {}
    /\ category_filter # {}
    /\ search_term # <<>>
    /\ Len(data.rows) = 2
    /\ Len(filtered_df.rows) = 1

\* C6: the rows of the filtered result are in the relative order they have in
\* the input table (index labels 0, 1, 2, ... in input order).
C6_OrderPreserved ==
    ViewDrawn =>
        \A i, j \in 1..Len(filtered_df.rows) :
            i < j => filtered_df.rows[i].idx <= filtered_df.rows[j].idx

\* C7: filtering the filtered result again with the same predicates gives the
\* same table.
C7_Idempotent ==
    ViewDrawn =>
        apply_filter(filtered_df, location_filter, category_filter,
                     stock_status, search_term) = filtered_df

(***************************************************************************)
(* Spec: the load section over a session.  The user uploads files with     *)
(* and without the required columns, with an extension in capitals, or     *)
(* unreadable; removes the file; ticks the sample box; and the sample      *)
(* paths hold a complete file, a file without price, or nothing.           *)
(***************************************************************************)
MaxRowsLoad == 1

LoadRows ==
    {MkRow(Str(<<"K", "1">>), Str(<<"a">>), Str(<<"X">>), Num(q), Num(1), Num(1), Str(<<"A">>)) :
        q \in {0, 3}}

LoadColumns ==
    {Range(required_columns),
     Range(required_columns) \ {"price"},
     Range(required_columns) \ {"price", "min_stock"},
     Range(required_columns) \ {"item_id", "location"}}

LoadFiles ==
    {File(ext, TRUE, tb) :
        ext \in {"csv", "xlsx", "CSV"},
        tb \in UNION {Tables(cols, LoadRows, MaxRowsLoad) : cols \in LoadColumns}}
    \cup {File("csv", FALSE, tb) : tb \in Tables(Range(required_columns), LoadRows, 0)}

SampleComplete ==
    File("csv", TRUE, DataFrame(AllColumns,
        <<MkRow(Str(<<"P", "1">>), Str(<<"b">>), Str(<<"Y">>), Num(1), Num(4), Num(1), Str(<<"B">>))>>))

SampleWithoutPrice ==
    File("csv", TRUE, DataFrame(AllColumns \ {"price"},
        <<MkRow(Str(<<"P", "2">>), Str(<<"b">>), Str(<<"Y">>), Num(1), Num(4), Num(1), Str(<<"B">>))>>))

LoadDisks ==
    {[cwd |-> c, script |-> s, sub |-> None] :
        c \in {None, SampleComplete, SampleWithoutPrice}, s \in {None, SampleComplete}}

Next ==
    \/ UploadFile(LoadFiles)
    \/ RemoveFile(LoadDisks)
    \/ ToggleSample(LoadDisks)
    \/ Rerun(LoadDisks)

Spec == Init /\ [][Next]_vars

\* the file was read into a table that lacks a required column
LacksRequired(file) ==
    /\ file.ext \in {"csv", "xls", "xlsx"}
    /\ file.readable
    /\ ~(Range(required_columns) \subseteq file.table.columns)

\* C8: a run that loads an uploaded table lacking required columns reports
\* exactly the missing required columns, load_data returns no table, and the
\* session's data, metrics and abc_analysis stay as they were: nothing is
\* computed from that input.
C8_MissingColumnsReported ==
    [][(run' = "upload" /\ LacksRequired(uploaded_file')) =>
          /\ st_error'.kind = "missing"
          /\ Range(st_error'.cols) = Range(required_columns) \ uploaded_file'.table.columns
          /\ Len(st_error'.cols) = Cardinality(Range(st_error'.cols))
          /\ is_none(load_data(uploaded_file').df)
          /\ UNCHANGED session]_vars

\* C8 witness: an upload without price and min_stock was reported while the
\* session still holds an earlier load
C8_Witness ==
    /\ run = "upload"
    /\ LacksRequired(uploaded_file)
    /\ st_error = [kind |-> "missing", cols |-> <<"price", "min_stock">>]
    /\ ~is_none(data)
    /\ ~is_none(metrics)
    /\ ~is_none(abc_analysis)

\* C9: data, metrics and abc_analysis are never partially updated: either none
\* of them is set, or metrics and abc_analysis are the ones computed from the
\* stored data.  (The session starts with none set, so a load that changes
\* all three on success and none on failure keeps this in every state.)
C9_NeverPartiallyUpdated ==
    \/ is_none(data) /\ is_none(metrics) /\ is_none(abc_analysis)
    \/ /\ ~is_none(data)
       /\ ~is_none(metrics)
       /\ ~is_none(abc_analysis)
       /\ calculate_inventory_metrics(data).kind = "metrics"
       /\ metrics = calculate_inventory_metrics(data)
       /\ \E a \in generate_abc_analysis(data) :
             a.kind # "raised" /\ a.df_abc = abc_analysis

(***************************************************************************)
(* SpecReport: one uploaded table, the report sections chosen, and the     *)
(* report button clicked with every outcome of the file operations.        *)
(***************************************************************************)
MaxRowsReport == 1

ReportRows ==
    {MkRow(Str(<<"K", "1">>), Str(<<"a">>), Str(<<"X">>), Num(q), Num(1), Num(1), Str(<<"A">>)) :
        q \in {0, 1, 3}}

ReportFiles == CsvFiles(Tables(Range(required_columns), ReportRows, MaxRowsReport))

NextReport ==
    \/ UploadOnce(ReportFiles)
    \/ SetReportOptions({NoDisk})
    \/ ClickGenerate({NoDisk})

SpecReport == Init /\ [][NextReport]_vars

\* C10: the file temp_report.xlsx does not exist after a report attempt.  It
\* does not exist when the session starts and only a report attempt creates
\* it, so the claim is that it exists in no state.
C10_TempFileRemoved == is_none(temp_report)

(***************************************************************************)
(* SpecSearch: uploads in which item_id or item_name cells are missing,    *)
(* and the search box of the data view.                                    *)
(***************************************************************************)
MaxRowsSearch == 2

SearchRows ==
    {MkRow(id, name, Str(<<"X">>), Num(1), Num(1), Num(1), Str(<<"A">>)) :
        id \in {Str(<<"K", "1">>), NaN},
        name \in {Str(<<"b">>), Str(<<"k">>), NaN}}

SearchFiles == CsvFiles(Tables(Range(required_columns), SearchRows, MaxRowsSearch))

SearchTerms == {<<>>, <<"k">>, <<"n">>, <<"n", "a", "n">>}

NextSearch ==
    \/ UploadOnce(SearchFiles)
    \/ SetSearchTerm({NoDisk}, SearchTerms)

SpecSearch == Init /\ [][NextSearch]_vars

\* the row as read from the file matches: a column of it that is not missing
\* contains the term
MatchesNonMissing(r, term) ==
    \/ r.cells["item_id"].kind = "str" /\ contains(r.cells["item_id"].s, term)
    \/ r.cells["item_name"].kind = "str" /\ contains(r.cells["item_name"].s, term)

SearchExpected ==
    SelectSeq(data.rows,
              LAMBDA r : MatchesNonMissing(uploaded_file.table.rows[r.idx + 1], search_term))

\* C11: with a non-empty search term the search does not raise, and the rows
\* kept are exactly those in which a non-missing item_id or item_name contains
\* the term, in the data view of app.py and in the search of minimal_app.py.
C11_MissingNonMatching ==
    (run = "upload" /\ dashboard_shown(data, metrics) /\ search_term # <<>>) =>
        /\ filtered_df.kind = "table"
        /\ filtered_df.rows = SearchExpected
        /\ minimal_search(data, search_term).rows = SearchExpected

\* a workbook was generated by the last run
WorkbookGenerated == excel_data.kind = "bytes"

\* C12 as stated: a section's sheet is in the generated workbook exactly when
\* its option is selected.
C12_AsStated ==
    WorkbookGenerated =>
        \A section \in ReportSections :
            section \in Range(excel_data.sheets) <=> section \in report_options

\* the section has something to put on its sheet
SectionAvailable(section) ==
    CASE section = "low" -> metrics.low_stock_count > 0
      [] section = "excess" -> metrics.excess_stock_count > 0
      [] section = "abc" -> ~is_none(abc_analysis)
      [] OTHER -> TRUE

\* C12, amended: a section's sheet is in the generated workbook exactly when
\* its option is selected and, for the low-stock and excess-stock sections,
\* the table has at least one such item (for the ABC section, an ABC table
\* exists); the other options play no part.
C12_SheetIffSelectedAndAvailable ==
    WorkbookGenerated =>
        \A section \in ReportSections :
            section \in Range(excel_data.sheets) <=>
                (section \in report_options /\ SectionAvailable(section))

\* C12 witness: low-stock, excess-stock and ABC selected on a table with a
\* low item and no excess item: the workbook has the low and the ABC sheet
C12_Witness ==
    /\ WorkbookGenerated
    /\ report_options = {"low", "excess", "abc"}
    /\ metrics.low_stock_count > 0
    /\ metrics.excess_stock_count = 0
    /\ excel_data.sheets = <<"low", "abc">>

====
